---- MODULE Spec2Model ----
(***************************************************************************)
(* HttpTimeoutConnector (src/src/lib.rs): a hyper NetworkConnector that    *)
(* resolves (host, port), tries every resolved address in order and        *)
(* bounds each attempt by an optional connect timeout.                     *)
(*                                                                         *)
(* The connector is one shared object with one field, connect_timeout.     *)
(* Every call of connect is a process with its own locals (the address     *)
(* iterator, last_err, the socket of the attempt in progress).  The        *)
(* resolver, the socket layer and the network are the environment: they    *)
(* are chosen in Init and stay fixed, time passes through Tick.            *)
(***************************************************************************)
EXTENDS Integers, Sequences, FiniteSets, TLC

\* ---------------------------------------------------------------- bounds
NumCalls   == 2      \* connect calls (callers sharing one connector)
MaxAddrs   == 3      \* longest address sequence the resolver returns
MaxTimeout == 2      \* largest configured timeout, in ticks
MaxDelay   == 1      \* slowest answer of a responding address, in ticks
Slack      == 0      \* how late after the deadline a timeout may be noticed

Calls == 1..NumCalls

\* The unbounded connect is ended by the operating system's own limit,
\* which is longer than every configured timeout and every answer.
OsLimit == MaxTimeout + MaxDelay + 1

\* ------------------------------------------------------- Option / Result
None    == <<>>
Some(x) == <<x>>
Ok(s)   == [ok  |-> s]
Err(e)  == [err |-> e]
Pending == [pending |-> TRUE]
IsOk(r)  == DOMAIN r = {"ok"}
IsErr(r) == DOMAIN r = {"err"}

\* ------------------------------------------------------------ the inputs
Schemes == {"http", "https"}
Hosts   == {"example.com"}
Ports   == {80}
IPs     == {"192.0.2.1", "2001:db8::1"}

Timeouts == {None} \cup {Some(d) : d \in 0..MaxTimeout}

\* ---------------------------------------------------------------- errors
\* io::Error values: the kind and the message.
IoError(kind, msg) == [kind |-> kind, msg |-> msg]

InvalidScheme == IoError("InvalidInput", "invalid scheme for http")
NoAddresses   == IoError("InvalidInput", "could not resolve to any addresses")
LookupFailure == IoError("Other", "failed to lookup address information")
SocketFailure == IoError("Other", "address family not supported")
Refused       == IoError("ConnectionRefused", "connection refused")
TimedOut      == IoError("TimedOut", "connection timed out")
OsTimedOut    == IoError("TimedOut", "Connection timed out (os error 110)")
ZeroDuration  == IoError("InvalidInput", "cannot set a 0 duration timeout")

\* What a bounded connect with a zero duration answers when the connection
\* is not established at once is left to the socket layer.
ZeroTimeoutErrors == {TimedOut, ZeroDuration}

\* Variant: the conversion keeps the message and loses the kind.
IntoOther(e) == [variant |-> "Io", io |-> IoError("Other", e.msg)]

\* From<io::Error> for hyper::Error, applied by `?` and by .into().
Into(e) == [variant |-> "Io", io |-> e]

\* ----------------------------------------------------------- environment
\* An address answers a connect with accept or refuse after `delay` ticks,
\* or never answers.
Behaviours ==
    [resp : {"accept"}, delay : 1..MaxDelay]
        \cup {[resp |-> "refuse", delay |-> 0], [resp |-> "silent", delay |-> 0]}

RECURSIVE SeqsUpTo(_, _)
SeqsUpTo(S, n) ==
    IF n = 0 THEN {<<>>}
    ELSE LET shorter == SeqsUpTo(S, n - 1)
         IN  shorter \cup {Append(s, x) : s \in shorter, x \in S}

\* The resolver answers a lookup error or an ordered sequence of addresses.
Resolutions == {Err(LookupFailure)} \cup {Ok(s) : s \in SeqsUpTo(IPs, MaxAddrs)}

\* ---------------------------------------------------------------- domain
\* Variant: every socket is an IPv4 socket.
DomainV4Only(addr) == "ipv4"

\* match *addr { V4(_) => Domain::ipv4(), V6(_) => Domain::ipv6() }
Domain(addr) == IF addr.ip = "192.0.2.1" THEN "ipv4" ELSE "ipv6"
Domains == {"ipv4", "ipv6"}

VARIABLES
    connect_timeout,  \* the connector's field
    dns,              \* environment: host -> resolution
    factory,          \* environment: domain -> can a socket be created
    net,              \* environment: ip -> behaviour
    pc,               \* per call: position in connect
    args,             \* per call: [host, port, scheme]
    lookups,          \* per call: number of resolver invocations
    iter,             \* per call: the address iterator (remaining addresses)
    last_err,         \* per call: the local last_err
    sockets,          \* per call: sockets created, in order
    cur,              \* per call: the attempt in progress
    elapsed,          \* per call: ticks the attempt in progress has waited
    log,              \* per call: finished attempts
    result            \* per call: what connect returned

vars == <<connect_timeout, dns, factory, net, pc, args, lookups, iter,
          last_err, sockets, cur, elapsed, log, result>>

env == <<dns, factory, net>>

NoArgs    == [host |-> "", port |-> 0, scheme |-> ""]
NoAttempt == [addr |-> [ip |-> "", port |-> 0], sock |-> 0, op |-> "none",
              bound |-> None]

InFlight(c) == pc[c] \notin {"idle", "done"}

\* HttpTimeoutConnector::new, and the environment the calls run against.
Init ==
    /\ connect_timeout = None
    /\ dns \in [Hosts -> Resolutions]
    /\ factory \in [Domains -> BOOLEAN]
    /\ net \in [IPs -> Behaviours]
    /\ pc = [c \in Calls |-> "idle"]
    /\ args = [c \in Calls |-> NoArgs]
    /\ lookups = [c \in Calls |-> 0]
    /\ iter = [c \in Calls |-> <<>>]
    /\ last_err = [c \in Calls |-> None]
    /\ sockets = [c \in Calls |-> <<>>]
    /\ cur = [c \in Calls |-> NoAttempt]
    /\ elapsed = [c \in Calls |-> 0]
    /\ log = [c \in Calls |-> <<>>]
    /\ result = [c \in Calls |-> Pending]

\* The addresses a call iterates: the resolver's answer for its host, each
\* with the port of the call.
Resolved(c) ==
    LET r == dns[args[c].host]
    IN  IF IsErr(r) THEN <<>>
        ELSE [i \in 1..Len(r.ok) |-> [ip |-> r.ok[i], port |-> args[c].port]]

\* Ticks the finished attempts of a call have taken.
RECURSIVE SumTook(_)
SumTook(l) == IF l = <<>> THEN 0 ELSE Head(l).took + SumTook(Tail(l))
Spent(c) == SumTook(log[c])

\* Variant: the field is written while connect calls are running.
SetConnectTimeoutRacy(t) ==
    /\ connect_timeout' = t
    /\ UNCHANGED <<env, pc, args, lookups, iter, last_err, sockets, cur,
                   elapsed, log, result>>

\* Variant: a zero duration is taken for no timeout.
SetConnectTimeoutZeroAsNone(t) ==
    /\ \A c \in Calls : ~InFlight(c)
    /\ connect_timeout' = IF t = Some(0) THEN None ELSE t
    /\ UNCHANGED <<env, pc, args, lookups, iter, last_err, sockets, cur,
                   elapsed, log, result>>

\* set_connect_timeout(&mut self, timeout): the exclusive borrow means no
\* connect(&self) of this connector is running.
SetConnectTimeout(t) ==
    /\ \A c \in Calls : ~InFlight(c)
    /\ connect_timeout' = t
    /\ UNCHANGED <<env, pc, args, lookups, iter, last_err, sockets, cur,
                   elapsed, log, result>>

\* connect_timeout(&self)
ConnectTimeout == connect_timeout

\* Variant: the scheme is not checked before resolving.
ConnectUnchecked(c, host, port, scheme) ==
    /\ pc[c] = "idle"
    /\ args' = [args EXCEPT ![c] = [host |-> host, port |-> port, scheme |-> scheme]]
    /\ pc' = [pc EXCEPT ![c] = "resolve"]
    /\ UNCHANGED <<connect_timeout, env, lookups, iter, last_err, sockets, cur,
                   elapsed, log, result>>

\* connect(host, port, scheme): entry and scheme check.
Connect(c, host, port, scheme) ==
    /\ pc[c] = "idle"
    /\ args' = [args EXCEPT ![c] = [host |-> host, port |-> port, scheme |-> scheme]]
    /\ IF scheme # "http"
       THEN /\ result' = [result EXCEPT ![c] = Err(Into(InvalidScheme))]
            /\ pc' = [pc EXCEPT ![c] = "done"]
       ELSE /\ pc' = [pc EXCEPT ![c] = "resolve"]
            /\ UNCHANGED result
    /\ UNCHANGED <<connect_timeout, env, lookups, iter, last_err, sockets, cur,
                   elapsed, log>>

\* Variant: a lookup error is taken for an empty address sequence.
ResolveSwallow(c) ==
    /\ pc[c] = "resolve"
    /\ lookups' = [lookups EXCEPT ![c] = @ + 1]
    /\ last_err' = [last_err EXCEPT ![c] = None]
    /\ iter' = [iter EXCEPT ![c] = Resolved(c)]
    /\ pc' = [pc EXCEPT ![c] = "next"]
    /\ UNCHANGED <<connect_timeout, env, args, sockets, cur, elapsed, log, result>>

\* Variant: the addresses another call has seen fail are left out.
ResolveSkipFailed(c) ==
    /\ pc[c] = "resolve"
    /\ lookups' = [lookups EXCEPT ![c] = @ + 1]
    /\ last_err' = [last_err EXCEPT ![c] = None]
    /\ LET r == dns[args[c].host]
           failed(a) == \E k \in Calls : \E i \in 1..Len(log[k]) :
                           log[k][i].addr = a /\ IsErr(log[k][i].res)
       IN  IF IsErr(r)
           THEN /\ result' = [result EXCEPT ![c] = Err(Into(r.err))]
                /\ pc' = [pc EXCEPT ![c] = "done"]
                /\ UNCHANGED iter
           ELSE /\ iter' = [iter EXCEPT ![c] =
                                SelectSeq(Resolved(c), LAMBDA a : ~failed(a))]
                /\ pc' = [pc EXCEPT ![c] = "next"]
                /\ UNCHANGED result
    /\ UNCHANGED <<connect_timeout, env, args, sockets, cur, elapsed, log>>

\* let mut last_err = None; (host, port).to_socket_addrs()?
Resolve(c) ==
    /\ pc[c] = "resolve"
    /\ lookups' = [lookups EXCEPT ![c] = @ + 1]
    /\ last_err' = [last_err EXCEPT ![c] = None]
    /\ LET r == dns[args[c].host]
       IN  IF IsErr(r)
           THEN /\ result' = [result EXCEPT ![c] = Err(Into(r.err))]
                /\ pc' = [pc EXCEPT ![c] = "done"]
                /\ UNCHANGED iter
           ELSE /\ iter' = [iter EXCEPT ![c] = Resolved(c)]
                /\ pc' = [pc EXCEPT ![c] = "next"]
                /\ UNCHANGED result
    /\ UNCHANGED <<connect_timeout, env, args, sockets, cur, elapsed, log>>

\* Variant: exhaustion always answers the generic error.
NextAddrGeneric(c) ==
    /\ pc[c] = "next"
    /\ IF iter[c] = <<>>
       THEN /\ result' = [result EXCEPT ![c] = Err(Into(NoAddresses))]
            /\ pc' = [pc EXCEPT ![c] = "done"]
            /\ UNCHANGED <<iter, cur>>
       ELSE /\ cur' = [cur EXCEPT ![c] = [NoAttempt EXCEPT !.addr = Head(iter[c])]]
            /\ iter' = [iter EXCEPT ![c] = Tail(@)]
            /\ pc' = [pc EXCEPT ![c] = "socket"]
            /\ UNCHANGED result
    /\ UNCHANGED <<connect_timeout, env, args, lookups, last_err, sockets,
                   elapsed, log>>

\* Variant: the loop takes the addresses from the back.
NextAddrReversed(c) ==
    /\ pc[c] = "next"
    /\ IF iter[c] = <<>>
       THEN /\ result' = [result EXCEPT ![c] =
                   Err(Into(IF last_err[c] = None THEN NoAddresses ELSE last_err[c][1]))]
            /\ pc' = [pc EXCEPT ![c] = "done"]
            /\ UNCHANGED <<iter, cur>>
       ELSE /\ cur' = [cur EXCEPT ![c] =
                   [NoAttempt EXCEPT !.addr = iter[c][Len(iter[c])]]]
            /\ iter' = [iter EXCEPT ![c] = SubSeq(@, 1, Len(@) - 1)]
            /\ pc' = [pc EXCEPT ![c] = "socket"]
            /\ UNCHANGED result
    /\ UNCHANGED <<connect_timeout, env, args, lookups, last_err, sockets,
                   elapsed, log>>

\* The head of the for loop, and the exhaustion after it.
NextAddr(c) ==
    /\ pc[c] = "next"
    /\ IF iter[c] = <<>>
       THEN /\ result' = [result EXCEPT ![c] =
                   Err(Into(IF last_err[c] = None THEN NoAddresses ELSE last_err[c][1]))]
            /\ pc' = [pc EXCEPT ![c] = "done"]
            /\ UNCHANGED <<iter, cur>>
       ELSE /\ cur' = [cur EXCEPT ![c] = [NoAttempt EXCEPT !.addr = Head(iter[c])]]
            /\ iter' = [iter EXCEPT ![c] = Tail(@)]
            /\ pc' = [pc EXCEPT ![c] = "socket"]
            /\ UNCHANGED result
    /\ UNCHANGED <<connect_timeout, env, args, lookups, last_err, sockets,
                   elapsed, log>>

\* Variant: the first error is kept.
RecordFirst(c, e) ==
    [last_err EXCEPT ![c] = IF @ = None THEN Some(e) ELSE @]

\* Variant: last_err is one slot of the connector, shared by its calls.
RecordShared(c, e) ==
    [k \in Calls |-> Some(e)]

\* Err(e) => last_err = Some(e)
Record(c, e) ==
    [last_err EXCEPT ![c] = Some(e)]

\* Variant: one budget for the whole call, less what earlier attempts took.
BoundCumulative(c) ==
    IF connect_timeout = None THEN None
    ELSE Some(IF connect_timeout[1] > Spent(c)
              THEN connect_timeout[1] - Spent(c) ELSE 0)

\* Variant: an unset timeout is taken for the default duration, zero.
BoundDefault(c) ==
    IF connect_timeout = None THEN Some(0) ELSE connect_timeout

\* The deadline an attempt is given: the configured duration, whole.
Bound(c) == connect_timeout

\* Variant: a socket that cannot be created ends the call.
ConnectOnceAbort(c) ==
    /\ pc[c] = "socket"
    /\ LET d == Domain(cur[c].addr)
       IN  IF factory[d]
           THEN /\ sockets' = [sockets EXCEPT ![c] =
                       Append(@, [domain |-> d, state |-> "open"])]
                /\ cur' = [cur EXCEPT ![c].sock = Len(sockets[c]) + 1,
                                      ![c].bound = Bound(c),
                                      ![c].op = IF Bound(c) = None
                                                THEN "connect" ELSE "connect_timeout"]
                /\ pc' = [pc EXCEPT ![c] = "wait"]
                /\ UNCHANGED <<last_err, log, result>>
           ELSE /\ last_err' = Record(c, SocketFailure)
                /\ log' = [log EXCEPT ![c] = Append(@,
                       [addr |-> cur[c].addr, sock |-> 0, op |-> "none",
                        bound |-> None, took |-> 0, res |-> Err(SocketFailure)])]
                /\ cur' = [cur EXCEPT ![c] = NoAttempt]
                /\ result' = [result EXCEPT ![c] = Err(Into(SocketFailure))]
                /\ pc' = [pc EXCEPT ![c] = "done"]
                /\ UNCHANGED sockets
    /\ elapsed' = [elapsed EXCEPT ![c] = 0]
    /\ UNCHANGED <<connect_timeout, env, args, lookups, iter>>

\* connect_once up to the connect it issues: the domain of the address,
\* Socket::new(domain, ..)?, and the match on self.connect_timeout.  A
\* failed creation returns from connect_once, so the loop records it.
ConnectOnce(c) ==
    /\ pc[c] = "socket"
    /\ LET d == Domain(cur[c].addr)
       IN  IF factory[d]
           THEN /\ sockets' = [sockets EXCEPT ![c] =
                       Append(@, [domain |-> d, state |-> "open"])]
                /\ cur' = [cur EXCEPT ![c].sock = Len(sockets[c]) + 1,
                                      ![c].bound = Bound(c),
                                      ![c].op = IF Bound(c) = None
                                                THEN "connect" ELSE "connect_timeout"]
                /\ pc' = [pc EXCEPT ![c] = "wait"]
                /\ UNCHANGED <<last_err, log>>
           ELSE /\ last_err' = Record(c, SocketFailure)
                /\ log' = [log EXCEPT ![c] = Append(@,
                       [addr |-> cur[c].addr, sock |-> 0, op |-> "none",
                        bound |-> None, took |-> 0, res |-> Err(SocketFailure)])]
                /\ cur' = [cur EXCEPT ![c] = NoAttempt]
                /\ pc' = [pc EXCEPT ![c] = "next"]
                /\ UNCHANGED sockets
    /\ elapsed' = [elapsed EXCEPT ![c] = 0]
    /\ UNCHANGED <<connect_timeout, env, args, lookups, iter, result>>

Waiting(c) == pc[c] = "wait"
Peer(c)    == net[cur[c].addr.ip]

\* The address answers this attempt: it answers at all, and does so at
\* once or before the deadline.
Responds(c) ==
    IF Peer(c).resp = "silent" THEN FALSE
    ELSE IF cur[c].bound = None \/ Peer(c).delay = 0 THEN TRUE
    ELSE Peer(c).delay < cur[c].bound[1]

Entry(c, r) ==
    [addr |-> cur[c].addr, sock |-> cur[c].sock, op |-> cur[c].op,
     bound |-> cur[c].bound, took |-> elapsed[c], res |-> r]

\* Variant: a success is noted and the loop goes on.
ConnectOkContinue(c) ==
    /\ Waiting(c) /\ Responds(c)
    /\ Peer(c).resp = "accept" /\ elapsed[c] = Peer(c).delay
    /\ sockets' = [sockets EXCEPT ![c][cur[c].sock].state = "connected"]
    /\ log' = [log EXCEPT ![c] = Append(@, Entry(c, Ok(cur[c].sock)))]
    /\ result' = [result EXCEPT ![c] = Ok([stream |-> <<c, cur[c].sock>>])]
    /\ cur' = [cur EXCEPT ![c] = NoAttempt]
    /\ elapsed' = [elapsed EXCEPT ![c] = 0]
    /\ pc' = [pc EXCEPT ![c] = "next"]
    /\ UNCHANGED <<connect_timeout, env, args, lookups, iter, last_err>>

\* Ok(l) => return Ok(HttpStream(l)): the socket becomes the stream.
ConnectOk(c) ==
    /\ Waiting(c) /\ Responds(c)
    /\ Peer(c).resp = "accept" /\ elapsed[c] = Peer(c).delay
    /\ sockets' = [sockets EXCEPT ![c][cur[c].sock].state = "connected"]
    /\ log' = [log EXCEPT ![c] = Append(@, Entry(c, Ok(cur[c].sock)))]
    /\ result' = [result EXCEPT ![c] = Ok([stream |-> <<c, cur[c].sock>>])]
    /\ cur' = [cur EXCEPT ![c] = NoAttempt]
    /\ elapsed' = [elapsed EXCEPT ![c] = 0]
    /\ pc' = [pc EXCEPT ![c] = "done"]
    /\ UNCHANGED <<connect_timeout, env, args, lookups, iter, last_err>>

\* Variant: the socket of a failed attempt is not dropped.
FailLeak(c, e) ==
    /\ log' = [log EXCEPT ![c] = Append(@, Entry(c, Err(e)))]
    /\ last_err' = Record(c, e)
    /\ cur' = [cur EXCEPT ![c] = NoAttempt]
    /\ elapsed' = [elapsed EXCEPT ![c] = 0]
    /\ pc' = [pc EXCEPT ![c] = "next"]
    /\ UNCHANGED <<connect_timeout, env, args, lookups, iter, result, sockets>>

\* Variant: a failed attempt switches the timeout off.
FailResetsTimeout(c, e) ==
    /\ sockets' = [sockets EXCEPT ![c][cur[c].sock].state = "closed"]
    /\ log' = [log EXCEPT ![c] = Append(@, Entry(c, Err(e)))]
    /\ last_err' = Record(c, e)
    /\ connect_timeout' = None
    /\ cur' = [cur EXCEPT ![c] = NoAttempt]
    /\ elapsed' = [elapsed EXCEPT ![c] = 0]
    /\ pc' = [pc EXCEPT ![c] = "next"]
    /\ UNCHANGED <<env, args, lookups, iter, result>>

\* Variant: the error of a failed attempt is returned at once.
FailReturn(c, e) ==
    /\ sockets' = [sockets EXCEPT ![c][cur[c].sock].state = "closed"]
    /\ log' = [log EXCEPT ![c] = Append(@, Entry(c, Err(e)))]
    /\ last_err' = Record(c, e)
    /\ result' = [result EXCEPT ![c] = Err(Into(e))]
    /\ cur' = [cur EXCEPT ![c] = NoAttempt]
    /\ elapsed' = [elapsed EXCEPT ![c] = 0]
    /\ pc' = [pc EXCEPT ![c] = "done"]
    /\ UNCHANGED <<connect_timeout, env, args, lookups, iter>>

\* The attempt failed: `?` in connect_once drops the socket, the loop
\* records the error and goes on.
Fail(c, e) ==
    /\ sockets' = [sockets EXCEPT ![c][cur[c].sock].state = "closed"]
    /\ log' = [log EXCEPT ![c] = Append(@, Entry(c, Err(e)))]
    /\ last_err' = Record(c, e)
    /\ cur' = [cur EXCEPT ![c] = NoAttempt]
    /\ elapsed' = [elapsed EXCEPT ![c] = 0]
    /\ pc' = [pc EXCEPT ![c] = "next"]
    /\ UNCHANGED <<connect_timeout, env, args, lookups, iter, result>>

\* The address refuses the connection.
ConnectRefused(c) ==
    /\ Waiting(c) /\ Responds(c)
    /\ Peer(c).resp = "refuse" /\ elapsed[c] = Peer(c).delay
    /\ Fail(c, Refused)

\* Variant: the timeout is reported one tick before the deadline.
ConnectTimedOutEarly(c) ==
    /\ Waiting(c) /\ ~Responds(c)
    /\ cur[c].bound # None
    /\ cur[c].bound[1] > 0
    /\ elapsed[c] + 1 >= cur[c].bound[1]
    /\ Fail(c, TimedOut)

\* socket.connect_timeout: the deadline passes without an answer.
ConnectTimedOut(c) ==
    /\ Waiting(c) /\ ~Responds(c)
    /\ cur[c].bound # None
    /\ cur[c].bound[1] > 0
    /\ elapsed[c] >= cur[c].bound[1]
    /\ Fail(c, TimedOut)

\* socket.connect_timeout with a zero duration and no answer at once.
ConnectZero(c) ==
    /\ Waiting(c) /\ ~Responds(c)
    /\ cur[c].bound = Some(0)
    /\ \E e \in ZeroTimeoutErrors : Fail(c, e)

\* socket.connect without a bound: the operating system gives up.
ConnectOsTimedOut(c) ==
    /\ Waiting(c) /\ ~Responds(c)
    /\ cur[c].bound = None
    /\ elapsed[c] = OsLimit
    /\ Fail(c, OsTimedOut)

\* Time may pass for a waiting attempt until its answer or its end is due.
CanWait(c) ==
    IF Responds(c) THEN elapsed[c] < Peer(c).delay
    ELSE IF cur[c].bound = None THEN elapsed[c] < OsLimit
    ELSE cur[c].bound[1] > 0 /\ elapsed[c] < cur[c].bound[1] + Slack

\* One tick of time: every waiting attempt has waited one tick longer.
Tick ==
    /\ \E c \in Calls : Waiting(c)
    /\ \A c \in Calls : Waiting(c) => CanWait(c)
    /\ elapsed' = [c \in Calls |-> IF Waiting(c) THEN elapsed[c] + 1 ELSE elapsed[c]]
    /\ UNCHANGED <<connect_timeout, env, pc, args, lookups, iter, last_err,
                   sockets, cur, log, result>>

\* What a running call does next.
Progress(c) ==
    \/ Resolve(c)
    \/ NextAddr(c)
    \/ ConnectOnce(c)
    \/ ConnectOk(c)
    \/ ConnectRefused(c)
    \/ ConnectTimedOut(c)
    \/ ConnectZero(c)
    \/ ConnectOsTimedOut(c)

Next ==
    \/ \E t \in Timeouts : SetConnectTimeout(t)
    \/ \E c \in Calls, h \in Hosts, p \in Ports, s \in Schemes : Connect(c, h, p, s)
    \/ \E c \in Calls : Progress(c)
    \/ Tick

Spec == Init /\ [][Next]_vars

\* A call runs on its caller's thread, blocking: a running call takes its
\* next step, and time passes.
FairSpec == Spec /\ WF_vars(Tick) /\ \A c \in Calls : WF_vars(Progress(c))

TypeOK ==
    /\ connect_timeout \in Timeouts
    /\ \A c \in Calls :
        /\ pc[c] \in {"idle", "resolve", "next", "socket", "wait", "done"}
        /\ lookups[c] \in 0..1
        /\ Len(log[c]) <= MaxAddrs
        /\ elapsed[c] \in 0..OsLimit

\* ------------------------------------------------------------ the claims
Started(c)   == pc[c] # "idle"
Done(c)      == pc[c] = "done"
Tried(c)     == Len(log[c])
LastEntry(c) == log[c][Len(log[c])]
StreamOf(c, k) == Ok([stream |-> <<c, k>>])

\* C1: a call returns the stream of the first address, in resolver order,
\* whose attempt succeeds: the attempts follow the resolved sequence, a
\* success is the last attempt of its call, the call is then over with the
\* stream of that attempt's socket, and nothing was created or tried for
\* the addresses after it.
C1_FirstSuccessReturned ==
    \A c \in Calls : Started(c) =>
        /\ Tried(c) <= Len(Resolved(c))
        /\ \A i \in 1..Tried(c) :
            /\ log[c][i].addr = Resolved(c)[i]
            /\ IsOk(log[c][i].res) =>
                /\ i = Tried(c)
                /\ Done(c)
                /\ result[c] = StreamOf(c, log[c][i].sock)
                /\ log[c][i].sock = Len(sockets[c])
                /\ sockets[c][log[c][i].sock].state = "connected"
                /\ iter[c] = SubSeq(Resolved(c), i + 1, Len(Resolved(c)))
        /\ (Done(c) /\ IsOk(result[c])) => (Tried(c) > 0 /\ IsOk(LastEntry(c).res))

\* a1 fails, a2 succeeds, a3 is left alone.
C1_Witness ==
    \E c \in Calls :
        /\ Done(c) /\ Tried(c) = 2
        /\ IsErr(log[c][1].res) /\ IsOk(log[c][2].res)
        /\ Len(Resolved(c)) > 2

NoSuccess(c) == \A i \in 1..Tried(c) : IsErr(log[c][i].res)

\* C2: when the resolved sequence is not empty and every attempt fails, the
\* call has tried every address and fails with the error of the last one,
\* kind and message untouched.
C2_LastErrorReturned ==
    \A c \in Calls :
        (Done(c) /\ args[c].scheme = "http" /\ Resolved(c) # <<>> /\ NoSuccess(c)) =>
            /\ Tried(c) = Len(Resolved(c))
            /\ result[c] = Err(Into(LastEntry(c).res.err))
            /\ result[c].err.io.kind = LastEntry(c).res.err.kind

\* Two addresses fail with different errors.
C2_Witness ==
    \E c \in Calls :
        /\ Done(c) /\ Tried(c) >= 2 /\ NoSuccess(c)
        /\ log[c][1].res # LastEntry(c).res
        /\ IsErr(result[c])

\* C3: a call whose scheme is not "http" is over at once with the
\* InvalidInput error of the scheme check, without a lookup, a socket or an
\* attempt.
C3_InvalidSchemeNoIO ==
    \A c \in Calls :
        (Started(c) /\ args[c].scheme # "http") =>
            /\ Done(c)
            /\ result[c] = Err(Into(InvalidScheme))
            /\ result[c].err.io.kind = "InvalidInput"
            /\ lookups[c] = 0
            /\ sockets[c] = <<>>
            /\ log[c] = <<>>
            /\ cur[c] = NoAttempt

C3_Witness ==
    \E c \in Calls :
        /\ Done(c) /\ args[c].scheme = "https"
        /\ connect_timeout # None
        /\ IsErr(result[c])

\* An attempt bounded by d ends by a timeout not before d, or by an answer
\* before d (or at once).
WithinOwnDeadline(e, d) ==
    IF e.res = Err(TimedOut) /\ d > 0
    THEN e.took >= d /\ e.took <= d + Slack
    ELSE e.took < d \/ e.took = 0

\* C4: while a timeout d is configured, every attempt of a running call is
\* the bounded connect with the deadline d, counted from the start of that
\* attempt, whatever the earlier attempts of the call took.
C4_FreshDeadlinePerAddress ==
    \A c \in Calls :
        (InFlight(c) /\ connect_timeout # None) =>
            /\ \A i \in 1..Tried(c) :
                log[c][i].op # "none" =>
                    /\ log[c][i].op = "connect_timeout"
                    /\ log[c][i].bound = connect_timeout
                    /\ WithinOwnDeadline(log[c][i], connect_timeout[1])
            /\ Waiting(c) =>
                    /\ cur[c].op = "connect_timeout"
                    /\ cur[c].bound = connect_timeout
                    /\ elapsed[c] <= connect_timeout[1] + Slack

\* The first attempt used up its deadline, the second has waited its own
\* whole deadline as well.
C4_Witness ==
    \E c \in Calls :
        /\ Waiting(c) /\ connect_timeout # None
        /\ Tried(c) >= 1 /\ log[c][1].res = Err(TimedOut)
        /\ elapsed[c] > 0
        /\ elapsed[c] >= cur[c].bound[1]

NeverAnswers(e) == e.op = "connect_timeout" /\ net[e.addr.ip].resp = "silent"

\* The claim as written, for every duration, zero included: an attempt with
\* a deadline on an address that never answers ends with TimedOut, not
\* before the deadline.
C5_AnyDurationTimesOut ==
    \A c \in Calls : \A i \in 1..Tried(c) :
        NeverAnswers(log[c][i]) =>
            /\ log[c][i].res = Err(TimedOut)
            /\ log[c][i].took >= log[c][i].bound[1]

C5_PositiveTimesOut ==
    \A c \in Calls :
        /\ \A i \in 1..Tried(c) :
            (NeverAnswers(log[c][i]) /\ log[c][i].bound[1] > 0) =>
                /\ log[c][i].res = Err(TimedOut)
                /\ log[c][i].took >= log[c][i].bound[1]
        /\ (/\ Done(c) /\ Tried(c) > 0 /\ Tried(c) = Len(Resolved(c))
            /\ NeverAnswers(LastEntry(c)) /\ LastEntry(c).bound[1] > 0) =>
                /\ result[c] = Err(Into(TimedOut))
                /\ result[c].err.io.kind = "TimedOut"
                /\ Spent(c) >= LastEntry(c).bound[1]

\* C5 (amended): with a timeout d > 0, an attempt on an address that never
\* answers ends with TimedOut after at least d, a call whose last address
\* is such an address fails with that TimedOut error, and every call
\* running with a timeout configured returns.
C5_TimeoutEndsTheWait ==
    /\ []C5_PositiveTimesOut
    /\ \A c \in Calls : (InFlight(c) /\ connect_timeout # None) ~> Done(c)

C5_Witness ==
    \E c \in Calls :
        /\ Done(c) /\ Tried(c) > 0
        /\ NeverAnswers(LastEntry(c)) /\ LastEntry(c).bound[1] > 0
        /\ result[c] = Err(Into(TimedOut))

\* C6: when the resolver fails, the call is over with the resolver's own
\* error, after that one lookup, without a socket or an attempt.
C6_LookupErrorPropagated ==
    \A c \in Calls :
        (Started(c) /\ args[c].scheme = "http" /\ IsErr(dns[args[c].host])
            /\ pc[c] # "resolve") =>
            /\ Done(c)
            /\ result[c] = Err(Into(dns[args[c].host].err))
            /\ result[c].err.io # NoAddresses
            /\ lookups[c] = 1
            /\ sockets[c] = <<>>
            /\ log[c] = <<>>
            /\ last_err[c] = None

C6_Witness ==
    \E c \in Calls :
        /\ Done(c) /\ args[c].scheme = "http"
        /\ result[c] = Err(Into(LookupFailure))

EmptyResolution(c) ==
    args[c].scheme = "http" /\ dns[args[c].host] = Ok(<<>>)

\* C7: a call whose resolution is the empty sequence fails with the
\* NoAddresses error (InvalidInput, "could not resolve to any addresses")
\* without a socket, and no other call returns that error.
C7_NoAddressesOnlyWhenEmpty ==
    \A c \in Calls : Done(c) =>
        /\ EmptyResolution(c) =>
            /\ result[c] = Err(Into(NoAddresses))
            /\ result[c].err.io.kind = "InvalidInput"
            /\ sockets[c] = <<>>
            /\ log[c] = <<>>
        /\ result[c] = Err(Into(NoAddresses)) => EmptyResolution(c)

C7_Witness ==
    \E c \in Calls :
        /\ Done(c) /\ EmptyResolution(c) /\ lookups[c] = 1
        /\ result[c] = Err(Into(NoAddresses))

OpenSockets(c) == {k \in 1..Len(sockets[c]) : sockets[c][k].state # "closed"}

\* C8: when a call has returned, the sockets it created are closed, except
\* the connected socket of the returned stream: none is open after a failed
\* call, that one after a successful call.
C8_OnlyTheStreamSocketStaysOpen ==
    \A c \in Calls : Done(c) =>
        IF IsOk(result[c])
        THEN /\ OpenSockets(c) = {result[c].ok.stream[2]}
             /\ sockets[c][result[c].ok.stream[2]].state = "connected"
        ELSE OpenSockets(c) = {}

\* A successful call that created a socket for a failed attempt before.
C8_Witness ==
    \E c \in Calls :
        /\ Done(c) /\ IsOk(result[c])
        /\ Len(sockets[c]) >= 2
        /\ sockets[c][1].state = "closed"

Dialled(c) == {i \in 1..Tried(c) : log[c][i].op # "none"}

\* C9: all attempts of one call are made with one and the same timeout
\* value: the finished ones and the one in progress.
C9_OneTimeoutPerCall ==
    \A c \in Calls :
        /\ \A i, j \in Dialled(c) :
            /\ log[c][i].bound = log[c][j].bound
            /\ log[c][i].op = log[c][j].op
        /\ Waiting(c) => \A i \in Dialled(c) :
            /\ log[c][i].bound = cur[c].bound
            /\ log[c][i].op = cur[c].op
        /\ InFlight(c) => \A i \in Dialled(c) : log[c][i].bound = connect_timeout

\* A call made two attempts with one value, and the timeout has another
\* value by now.
C9_Witness ==
    \E c \in Calls :
        /\ Done(c) /\ Cardinality(Dialled(c)) >= 2
        /\ \A i \in Dialled(c) : log[c][i].bound # connect_timeout
        /\ \E k \in Calls : InFlight(k) /\ Dialled(k) # {}

\* The timeout a call has made its attempts with.
TimeoutUsed(c) ==
    IF Dialled(c) = {} THEN None
    ELSE log[c][CHOOSE i \in Dialled(c) : TRUE].bound

\* What one attempt on an address ends with, by the environment alone.
OutcomesAlone(addr, b, k) ==
    LET peer == net[addr.ip]
        answers == IF peer.resp = "silent" THEN FALSE
                   ELSE IF b = None \/ peer.delay = 0 THEN TRUE
                   ELSE peer.delay < b[1]
    IN  IF ~factory[Domain(addr)] THEN {Err(SocketFailure)}
        ELSE IF answers
             THEN IF peer.resp = "accept" THEN {Ok(k)} ELSE {Err(Refused)}
        ELSE IF b = None THEN {Err(OsTimedOut)}
        ELSE IF b = Some(0) THEN {Err(e) : e \in ZeroTimeoutErrors}
        ELSE {Err(TimedOut)}

\* The runs of the loop over seq, from the attempts outs made so far with
\* nsock sockets created: the result and the outcome of every attempt.
RECURSIVE WalkAlone(_, _, _, _, _, _)
WalkAlone(c, seq, b, outs, nsock, last) ==
    LET i == Len(outs) + 1
    IN  IF i > Len(seq)
        THEN {[res |-> Err(Into(IF last = None THEN NoAddresses ELSE last[1])),
               outs |-> outs]}
        ELSE UNION {
               IF IsOk(o)
               THEN {[res |-> StreamOf(c, o.ok), outs |-> Append(outs, o)]}
               ELSE WalkAlone(c, seq, b, Append(outs, o),
                              IF factory[Domain(seq[i])] THEN nsock + 1 ELSE nsock,
                              Some(o.err))
               : o \in OutcomesAlone(seq[i], b, nsock + 1)}

\* The runs of a call with the arguments of c and the timeout b, on its own.
ConnectAlone(c, b) ==
    IF args[c].scheme # "http"
    THEN {[res |-> Err(Into(InvalidScheme)), outs |-> <<>>]}
    ELSE IF IsErr(dns[args[c].host])
    THEN {[res |-> Err(Into(dns[args[c].host].err)), outs |-> <<>>]}
    ELSE WalkAlone(c, Resolved(c), b, <<>>, 0, None)

\* C10: whatever the other calls do meanwhile, a call returns what it
\* returns when run alone against the same resolver and sockets, after the
\* same attempts with the same outcomes; and its last_err is the error of
\* its own latest failed attempt.
C10_CallsDoNotInterfere ==
    \A c \in Calls :
        /\ Done(c) =>
            [res |-> result[c], outs |-> [i \in 1..Tried(c) |-> log[c][i].res]]
                \in ConnectAlone(c, TimeoutUsed(c))
        /\ pc[c] \in {"next", "socket", "wait"} =>
            last_err[c] = IF Tried(c) = 0 THEN None ELSE Some(LastEntry(c).res.err)

\* Two calls are running, each after a failure of its own, with different
\* errors.
C10_Witness ==
    \E c, k \in Calls :
        /\ c # k /\ InFlight(c) /\ InFlight(k)
        /\ last_err[c] # None /\ last_err[k] # None
        /\ last_err[c] # last_err[k]

\* The errors only the bounded connect raises.
DeadlineErrors == {TimedOut, ZeroDuration}

\* C11: while no timeout is configured, every attempt of a running call is
\* the plain connect, without a deadline; and an attempt made with the
\* plain connect succeeds when its address accepts, as soon as it does, and
\* never ends with an error of the bounded connect.
C11_UnboundedWhenUnset ==
    \A c \in Calls :
        /\ (InFlight(c) /\ connect_timeout = None) =>
            /\ \A i \in Dialled(c) :
                log[c][i].op = "connect" /\ log[c][i].bound = None
            /\ Waiting(c) => (cur[c].op = "connect" /\ cur[c].bound = None)
        /\ \A i \in Dialled(c) :
            log[c][i].op = "connect" =>
                /\ log[c][i].bound = None
                /\ \A e \in DeadlineErrors : log[c][i].res # Err(e)
                /\ net[log[c][i].addr.ip].resp = "accept" =>
                    /\ log[c][i].res = Ok(log[c][i].sock)
                    /\ log[c][i].took = net[log[c][i].addr.ip].delay
                    /\ result[c] = StreamOf(c, log[c][i].sock)

\* With no timeout set, a call has connected to an address that accepts.
C11_Witness ==
    \E c \in Calls :
        /\ Done(c) /\ connect_timeout = None
        /\ IsOk(result[c])
        /\ LastEntry(c).op = "connect"

\* C12: a new connector reports no timeout, and after every call of
\* set_connect_timeout the getter reports the argument of that call, None
\* and the zero duration included.
C12_GetterReportsLastSet ==
    /\ ConnectTimeout = None
    /\ [][\A t \in Timeouts : SetConnectTimeout(t) => ConnectTimeout' = t]_vars

\* A call ran with the largest timeout, and zero has been set since.
C12_Witness ==
    /\ ConnectTimeout = Some(0)
    /\ \E c \in Calls :
        Done(c) /\ Dialled(c) # {} /\ TimeoutUsed(c) = Some(MaxTimeout)

\* The errors the attempts of a call made with a zero timeout ended with.
ZeroAnswers(c) ==
    {log[c][i].res.err : i \in {j \in Dialled(c) : log[c][j].bound = Some(0)}}

\* Two calls were made with the same input and the same timeout, of a
\* socket layer that answers a zero timeout the same way every time.
SameCall(c, k) ==
    /\ Done(c) /\ Done(k)
    /\ args[c] = args[k]
    /\ TimeoutUsed(c) = TimeoutUsed(k)
    /\ Cardinality(ZeroAnswers(c) \cup ZeroAnswers(k)) <= 1

\* C13: two finished calls with the same host, port and scheme and the same
\* timeout ended the same way, whatever ran before or beside them: with the
\* same error, or with a stream to the same address, after the same
\* attempts with the same outcomes.
C13_SameInputSameOutcome ==
    \A c, k \in Calls :
        SameCall(c, k) =>
            /\ IsErr(result[c]) => result[k] = result[c]
            /\ IsOk(result[c]) =>
                IsOk(result[k]) /\ LastEntry(k).addr = LastEntry(c).addr
            /\ Tried(c) = Tried(k)
            /\ \A i \in 1..Tried(c) :
                /\ log[k][i].addr = log[c][i].addr
                /\ IsErr(log[c][i].res) => log[k][i].res = log[c][i].res

\* Two calls with the same input each reached a stream at the second
\* address, under the same timeout.
C13_Witness ==
    \E c, k \in Calls :
        /\ c # k /\ SameCall(c, k)
        /\ TimeoutUsed(c) # None
        /\ IsOk(result[c]) /\ IsOk(result[k])
        /\ Tried(c) = 2

\* The four kinds of a failed call, as sets of the errors a caller can get.
InvalidSchemeErrors     == {InvalidScheme}
ResolutionFailureErrors == {LookupFailure}
NoAddressesErrors       == {NoAddresses}
ConnectionFailureErrors ==
    {SocketFailure, Refused, TimedOut, OsTimedOut, ZeroDuration}

ErrorKinds ==
    [InvalidScheme     |-> InvalidSchemeErrors,
     ResolutionFailure |-> ResolutionFailureErrors,
     NoAddresses       |-> NoAddressesErrors,
     ConnectionFailure |-> ConnectionFailureErrors]

\* The kind of failure the input and the environment of a call lead to.
FailureOf(c) ==
    IF args[c].scheme # "http" THEN "InvalidScheme"
    ELSE IF IsErr(dns[args[c].host]) THEN "ResolutionFailure"
    ELSE IF Resolved(c) = <<>> THEN "NoAddresses"
    ELSE "ConnectionFailure"

Misuse(c) == FailureOf(c) \in {"InvalidScheme", "NoAddresses"}

Connecting(c) == {k \in 1..Len(sockets[c]) : sockets[c][k].state = "open"}

\* The part of the resolved sequence from position i on.
From(c, i) == SubSeq(Resolved(c), i, Len(Resolved(c)))

\* C15: a call has at most one attempt in progress; its attempts follow the
\* resolved sequence position by position, each position once; an attempt
\* is prepared or in progress only when all earlier ones have failed; and
\* the one lookup of the call is over before its first socket exists.
C15_SequentialInResolverOrder ==
    \A c \in Calls :
        /\ Connecting(c) = IF Waiting(c) THEN {cur[c].sock} ELSE {}
        /\ Tried(c) > 0 => Tried(c) <= Len(Resolved(c))
        /\ \A i \in 1..Tried(c) :
            /\ log[c][i].addr = Resolved(c)[i]
            /\ i < Tried(c) => IsErr(log[c][i].res)
        /\ pc[c] = "next" => (NoSuccess(c) /\ iter[c] = From(c, Tried(c) + 1))
        /\ pc[c] \in {"socket", "wait"} =>
            /\ NoSuccess(c)
            /\ cur[c].addr = Resolved(c)[Tried(c) + 1]
            /\ iter[c] = From(c, Tried(c) + 2)
        /\ lookups[c] <= 1
        /\ (sockets[c] # <<>> \/ log[c] # <<>> \/ pc[c] \in {"next", "socket", "wait"}) =>
            (lookups[c] = 1 /\ IsOk(dns[args[c].host]))

\* The third address is being connected to, after two other attempts on
\* different addresses.
C15_Witness ==
    \E c \in Calls :
        /\ Waiting(c) /\ Tried(c) = 2
        /\ log[c][1].addr # log[c][2].addr
        /\ Connecting(c) = {Len(sockets[c])}

\* C16: a call whose attempts have all failed so far is not over while an
\* address of the resolved sequence is left; and a call that ended with a
\* ConnectionFailure has tried every position of the sequence, once each,
\* and all the attempts failed.
C16_FailsOnlyWhenExhausted ==
    \A c \in Calls :
        /\ (Tried(c) >= 1 /\ NoSuccess(c) /\ Tried(c) < Len(Resolved(c))) =>
            ~Done(c)
        /\ (Done(c) /\ IsErr(result[c]) /\ FailureOf(c) = "ConnectionFailure") =>
            /\ iter[c] = <<>>
            /\ [i \in 1..Tried(c) |-> log[c][i].addr] = Resolved(c)
            /\ NoSuccess(c)
            /\ result[c].err.io \in ConnectionFailureErrors

\* A call failed after three attempts, the first and the last of them with
\* different errors.
C16_Witness ==
    \E c \in Calls :
        /\ Done(c) /\ IsErr(result[c])
        /\ Tried(c) = MaxAddrs
        /\ log[c][1].res # LastEntry(c).res

\* What one call holds: its position, arguments, iterator, last error,
\* sockets, attempts and result.
Locals(c) ==
    <<pc[c], args[c], lookups[c], iter[c], last_err[c], sockets[c], cur[c],
      log[c], result[c]>>

\* C17: a step of a connect call, whatever it leads to, leaves the timeout
\* of the connector and all that the other calls hold as they are, and a
\* call starts with no error, address, socket or attempt; the timeout
\* changes only in a step of set_connect_timeout.
C17_ConnectLeavesConnectorAlone ==
    [][/\ \A c \in Calls :
           Locals(c)' # Locals(c) =>
               /\ ConnectTimeout' = ConnectTimeout
               /\ \A k \in Calls \ {c} : Locals(k)' = Locals(k)
               /\ pc[c] = "idle" =>
                   /\ last_err'[c] = None /\ iter'[c] = <<>>
                   /\ sockets'[c] = <<>> /\ log'[c] = <<>>
                   /\ cur'[c] = NoAttempt
       /\ ConnectTimeout' # ConnectTimeout =>
           \E t \in Timeouts : SetConnectTimeout(t)
      ]_vars

\* A call has failed after an attempt under the timeout that is still set.
C17_Witness ==
    \E c \in Calls :
        /\ Done(c) /\ IsErr(result[c])
        /\ Dialled(c) # {}
        /\ ConnectTimeout # None
        /\ ConnectTimeout = TimeoutUsed(c)

\* The attempts of a call for which no socket could be created.
Unsocketed(c) == {i \in 1..Tried(c) : ~factory[Domain(log[c][i].addr)]}

\* C18: an attempt whose socket cannot be created has no socket and no
\* connect, and ends with the creation error; that error is the last error
\* of the call until the next attempt ends; the call goes on to the next
\* address, and ends with the creation error if there is none.
C18_SocketFailureIsAFailedAttempt ==
    \A c \in Calls :
        /\ Len(sockets[c]) =
               Cardinality((1..Tried(c)) \ Unsocketed(c)) + IF Waiting(c) THEN 1 ELSE 0
        /\ \A i \in Unsocketed(c) :
            /\ log[c][i].op = "none" /\ log[c][i].sock = 0
            /\ log[c][i].res = Err(SocketFailure)
            /\ (i = Tried(c) /\ pc[c] = "next") =>
                last_err[c] = Some(SocketFailure)
            /\ (i = Tried(c) /\ Done(c)) =>
                /\ i = Len(Resolved(c))
                /\ result[c] = Err(Into(SocketFailure))
        /\ \A i \in (1..Tried(c)) \ Unsocketed(c) :
            log[c][i].op # "none" /\ log[c][i].sock # 0

\* After a refused connect the socket for the last address could not be
\* created, and the call failed with the creation error.
C18_Witness ==
    \E c \in Calls :
        /\ Done(c) /\ Tried(c) >= 2
        /\ log[c][1].res = Err(Refused)
        /\ Tried(c) \in Unsocketed(c)
        /\ result[c] = Err(Into(SocketFailure))

\* The addresses of the two families, by their notation.
V4Addrs == {"192.0.2.1"}
V6Addrs == {"2001:db8::1"}
FamilyOf(addr) == IF addr.ip \in V4Addrs THEN "ipv4" ELSE "ipv6"

\* C19: the socket of every attempt, finished or in progress, is of the
\* family of the address of that attempt, and an attempt without a socket
\* is one whose family the factory could not serve.
C19_SocketFamilyMatchesAddress ==
    \A c \in Calls :
        /\ \A i \in 1..Tried(c) :
            /\ log[c][i].addr.ip \in V4Addrs \cup V6Addrs
            /\ IF log[c][i].sock # 0
               THEN sockets[c][log[c][i].sock].domain = FamilyOf(log[c][i].addr)
               ELSE ~factory[FamilyOf(log[c][i].addr)]
        /\ Waiting(c) =>
            sockets[c][cur[c].sock].domain = FamilyOf(cur[c].addr)
        /\ \A k \in 1..Len(sockets[c]) :
            \/ \E i \in 1..Tried(c) : log[c][i].sock = k
            \/ Waiting(c) /\ cur[c].sock = k

\* A call over a mixed sequence has made an IPv4 and an IPv6 socket.
C19_Witness ==
    \E c \in Calls :
        /\ Done(c) /\ Tried(c) >= 2
        /\ \E i, j \in 1..Tried(c) :
            /\ log[c][i].addr.ip \in V4Addrs /\ log[c][i].sock # 0
            /\ log[c][j].addr.ip \in V6Addrs /\ log[c][j].sock # 0
            /\ sockets[c][log[c][i].sock].domain # sockets[c][log[c][j].sock].domain
====
